---- MODULE Spec2Model ----
(***************************************************************************)
(* Model of pkg/module/util.go: the helpers that derive resource ids and   *)
(* Terraform provider extensions.  Go strings are sequences of one-        *)
(* character strings, so that strings.Split and strings.Join are computed  *)
(* character by character.  A caller invokes one helper at a time on       *)
(* arguments drawn from bounded sets and reads what the helper returned.   *)
(***************************************************************************)
EXTENDS Naturals, Sequences, FiniteSets

\* fn:   the helper the caller is in ("none" between calls)
\* args: the arguments of the call
\* ret:  what the call returned
VARIABLES fn, args, ret

vars == <<fn, args, ret>>

(***************************************************************************)
(* Bounds of the model.                                                    *)
(***************************************************************************)
\* longest provider source the caller passes
MaxSrcLen == 5
\* longest apiVersion, kind, namespace and name the caller passes
MaxMetaLen == 2

(***************************************************************************)
(* Strings.                                                                *)
(***************************************************************************)
StrOver(chars, n) == UNION {[1..k -> chars] : k \in 0..n}

\* index of the first occurrence of the character c in s, 0 when absent
IndexByte(s, c) ==
    IF \E i \in 1..Len(s) : s[i] = c
    THEN CHOOSE i \in 1..Len(s) : s[i] = c /\ \A j \in 1..(i - 1) : s[j] # c
    ELSE 0

\* strings.Split(s, sep) for a one-character separator
RECURSIVE Split(_, _)
Split(s, sep) ==
    LET i == IndexByte(s, sep)
    IN  IF i = 0
        THEN <<s>>
        ELSE <<SubSeq(s, 1, i - 1)>> \o Split(SubSeq(s, i + 1, Len(s)), sep)

\* strings.Join(elems, sep)
Join(elems, sep) ==
    IF elems = <<>> THEN <<>>
    ELSE LET F[k \in 1..Len(elems)] ==
                 IF k = 1 THEN elems[1] ELSE F[k - 1] \o sep \o elems[k]
         IN  F[Len(elems)]

defaultTFHost ==
    <<"r", "e", "g", "i", "s", "t", "r", "y", ".",
      "t", "e", "r", "r", "a", "f", "o", "r", "m", ".", "i", "o">>

(***************************************************************************)
(* Go values: errors, `any` values, maps, the resource record.             *)
(***************************************************************************)
\* the nil error
NoError == [kind |-> "nil", source |-> <<>>]
ErrEmptyTFProviderVersion ==
    [kind |-> "empty terraform provider version", source |-> <<>>]
ErrEmptySource == [kind |-> "empty terraform provider source", source |-> <<>>]
ErrEmptyResourceType == [kind |-> "empty resource type", source |-> <<>>]
ErrInvalidSource(src) ==
    [kind |-> "invalid terraform provider source", source |-> src]

\* a map[string]any: nil, or a set of key/value entries with distinct keys
NilMap == [isNil |-> TRUE, kv |-> {}]
MakeMap(entries) == [isNil |-> FALSE, kv |-> entries]
Has(m, k) == \E e \in m.kv : e.key = k
Get(m, k) == (CHOOSE e \in m.kv : e.key = k).val

\* a value of type `any`: its dynamic type and the value
AnyString(s) == [type |-> "string", str |-> s, num |-> 0, cfg |-> NilMap]
AnyInt(n) == [type |-> "int", str |-> <<>>, num |-> n, cfg |-> NilMap]
AnyConfig(c) == [type |-> "GenericConfig", str |-> <<>>, num |-> 0, cfg |-> c]

\* a nil *v1.Resource
NilResource ==
    [isNil |-> TRUE, ID |-> <<>>, Type |-> "", Attributes |-> NilMap,
     DependsOn |-> [isNil |-> TRUE, elems |-> <<>>], Extensions |-> NilMap]

(***************************************************************************)
(* KubernetesResourceID                                                    *)
(***************************************************************************)
KubernetesResourceID(typeMeta, objectMeta) ==
    LET id0 == typeMeta.APIVersion \o <<":">> \o typeMeta.Kind \o <<":">>
        id1 == IF objectMeta.Namespace # <<>>
               THEN id0 \o objectMeta.Namespace \o <<":">>
               ELSE id0
    IN  id1 \o objectMeta.Name

(***************************************************************************)
(* TerraformResourceID: [id, err]                                          *)
(***************************************************************************)
\* splits the source before it looks at the version
TerraformResourceID_SourceFirst(providerCfg, resType, resName) ==
    LET srcAttrs == Split(providerCfg.Source, "/")
    IN  IF Len(srcAttrs) \notin {2, 3}
        THEN [id |-> <<>>, err |-> ErrInvalidSource(providerCfg.Source)]
        ELSE IF providerCfg.Version = <<>>
        THEN [id |-> <<>>, err |-> ErrEmptyTFProviderVersion]
        ELSE [id |-> Join(<<srcAttrs[Len(srcAttrs) - 1], srcAttrs[Len(srcAttrs)],
                            resType, resName>>, <<":">>),
              err |-> NoError]

\* takes the namespace and the name from segments 0 and 1 whatever the shape
TerraformResourceID_HostAsNamespace(providerCfg, resType, resName) ==
    IF providerCfg.Version = <<>>
    THEN [id |-> <<>>, err |-> ErrEmptyTFProviderVersion]
    ELSE LET srcAttrs == Split(providerCfg.Source, "/")
         IN  IF Len(srcAttrs) \in {2, 3}
             THEN [id |-> Join(<<srcAttrs[1], srcAttrs[2], resType, resName>>,
                               <<":">>),
                   err |-> NoError]
             ELSE [id |-> <<>>, err |-> ErrInvalidSource(providerCfg.Source)]

TerraformResourceID(providerCfg, resType, resName) ==
    IF providerCfg.Version = <<>>
    THEN [id |-> <<>>, err |-> ErrEmptyTFProviderVersion]
    ELSE LET srcAttrs == Split(providerCfg.Source, "/")
         IN  IF Len(srcAttrs) = 3
             THEN [id |-> Join(<<srcAttrs[2], srcAttrs[3], resType, resName>>,
                               <<":">>),
                   err |-> NoError]
             ELSE IF Len(srcAttrs) = 2
             THEN [id |-> Join(<<srcAttrs[1], srcAttrs[2], resType, resName>>,
                               <<":">>),
                   err |-> NoError]
             ELSE [id |-> <<>>, err |-> ErrInvalidSource(providerCfg.Source)]

(***************************************************************************)
(* TerraformProviderExtensions: [extensions, err]                          *)
(***************************************************************************)
\* prepends the default registry host whatever the shape of the source
TerraformProviderExtensions_HostAlways(providerCfg, resType) ==
    IF providerCfg.Version = <<>>
    THEN [extensions |-> NilMap, err |-> ErrEmptyTFProviderVersion]
    ELSE IF providerCfg.Source = <<>>
    THEN [extensions |-> NilMap, err |-> ErrEmptySource]
    ELSE IF resType = <<>>
    THEN [extensions |-> NilMap, err |-> ErrEmptyResourceType]
    ELSE LET srcAttrs == Split(providerCfg.Source, "/")
             providerURL ==
                 Join(<<defaultTFHost, providerCfg.Source, providerCfg.Version>>,
                      <<"/">>)
         IN  IF Len(srcAttrs) \in {2, 3}
             THEN [extensions |->
                       MakeMap({[key |-> "provider", val |-> AnyString(providerURL)],
                                [key |-> "providerMeta",
                                 val |-> AnyConfig(providerCfg.ProviderMeta)],
                                [key |-> "resourceType", val |-> AnyString(resType)]}),
                   err |-> NoError]
             ELSE [extensions |-> NilMap,
                   err |-> ErrInvalidSource(providerCfg.Source)]

\* leaves the providerMeta key out when the config has no provider metadata
TerraformProviderExtensions_OmitEmptyMeta(providerCfg, resType) ==
    IF providerCfg.Version = <<>>
    THEN [extensions |-> NilMap, err |-> ErrEmptyTFProviderVersion]
    ELSE IF providerCfg.Source = <<>>
    THEN [extensions |-> NilMap, err |-> ErrEmptySource]
    ELSE IF resType = <<>>
    THEN [extensions |-> NilMap, err |-> ErrEmptyResourceType]
    ELSE LET srcAttrs == Split(providerCfg.Source, "/")
             providerURL ==
                 IF Len(srcAttrs) = 3
                 THEN Join(<<providerCfg.Source, providerCfg.Version>>, <<"/">>)
                 ELSE Join(<<defaultTFHost, providerCfg.Source,
                             providerCfg.Version>>, <<"/">>)
             meta == IF providerCfg.ProviderMeta.kv = {}
                     THEN {}
                     ELSE {[key |-> "providerMeta",
                            val |-> AnyConfig(providerCfg.ProviderMeta)]}
         IN  IF Len(srcAttrs) \in {2, 3}
             THEN [extensions |->
                       MakeMap({[key |-> "provider", val |-> AnyString(providerURL)],
                                [key |-> "resourceType", val |-> AnyString(resType)]}
                               \cup meta),
                   err |-> NoError]
             ELSE [extensions |-> NilMap,
                   err |-> ErrInvalidSource(providerCfg.Source)]

TerraformProviderExtensions(providerCfg, resType) ==
    IF providerCfg.Version = <<>>
    THEN [extensions |-> NilMap, err |-> ErrEmptyTFProviderVersion]
    ELSE IF providerCfg.Source = <<>>
    THEN [extensions |-> NilMap, err |-> ErrEmptySource]
    ELSE IF resType = <<>>
    THEN [extensions |-> NilMap, err |-> ErrEmptyResourceType]
    ELSE LET srcAttrs == Split(providerCfg.Source, "/")
             extensions(providerURL) ==
                 MakeMap({[key |-> "provider", val |-> AnyString(providerURL)],
                          [key |-> "providerMeta",
                           val |-> AnyConfig(providerCfg.ProviderMeta)],
                          [key |-> "resourceType", val |-> AnyString(resType)]})
         IN  IF Len(srcAttrs) = 3
             THEN [extensions |->
                       extensions(Join(<<providerCfg.Source,
                                         providerCfg.Version>>, <<"/">>)),
                   err |-> NoError]
             ELSE IF Len(srcAttrs) = 2
             THEN [extensions |->
                       extensions(Join(<<defaultTFHost, providerCfg.Source,
                                         providerCfg.Version>>, <<"/">>)),
                   err |-> NoError]
             ELSE [extensions |-> NilMap,
                   err |-> ErrInvalidSource(providerCfg.Source)]

(***************************************************************************)
(* WrapTFResourceToKusionResource: [resource, err]                         *)
(***************************************************************************)
\* builds the record without its dependencies
WrapTFResourceToKusionResource_NoDependsOn(providerCfg, resType, resourceID, attributes, dependsOn) ==
    LET r == TerraformProviderExtensions(providerCfg, resType)
    IN  IF r.err # NoError
        THEN [resource |-> NilResource, err |-> r.err]
        ELSE [resource |->
                  [isNil |-> FALSE, ID |-> resourceID, Type |-> "Terraform",
                   Attributes |-> attributes,
                   DependsOn |-> [isNil |-> TRUE, elems |-> <<>>],
                   Extensions |-> r.extensions],
              err |-> NoError]

WrapTFResourceToKusionResource(providerCfg, resType, resourceID, attributes, dependsOn) ==
    LET r == TerraformProviderExtensions(providerCfg, resType)
    IN  IF r.err # NoError
        THEN [resource |-> NilResource, err |-> r.err]
        ELSE [resource |->
                  [isNil |-> FALSE, ID |-> resourceID, Type |-> "Terraform",
                   Attributes |-> attributes, DependsOn |-> dependsOn,
                   Extensions |-> r.extensions],
              err |-> NoError]

(***************************************************************************)
(* TerraformProviderRegion: [region, panicked]                             *)
(***************************************************************************)
\* refuses a config without a version
TerraformProviderRegion_NeedsVersion(providerCfg) ==
    IF providerCfg.Version = <<>> \/ ~Has(providerCfg.ProviderMeta, "region")
    THEN [region |-> <<>>, panicked |-> FALSE]
    ELSE LET region == Get(providerCfg.ProviderMeta, "region")
         IN  IF region.type = "string"
             THEN [region |-> region.str, panicked |-> FALSE]
             ELSE [region |-> <<>>, panicked |-> TRUE]

TerraformProviderRegion(providerCfg) ==
    IF ~Has(providerCfg.ProviderMeta, "region")
    THEN [region |-> <<>>, panicked |-> FALSE]
    ELSE LET region == Get(providerCfg.ProviderMeta, "region")
         IN  \* region.(string) panics when the dynamic type is not string
             IF region.type = "string"
             THEN [region |-> region.str, panicked |-> FALSE]
             ELSE [region |-> <<>>, panicked |-> TRUE]

(***************************************************************************)
(* The arguments the caller passes.                                        *)
(***************************************************************************)
Sources == StrOver({"a", "/", ":"}, MaxSrcLen)
Versions == {<<>>, <<"1">>}
ResTypes == {<<>>, <<"t">>, <<"t", ":">>}
ResNames == {<<>>, <<"n">>, <<":">>}
ProviderMetas ==
    {NilMap,
     MakeMap({}),
     MakeMap({[key |-> "region", val |-> AnyString(<<"r">>)]}),
     MakeMap({[key |-> "region", val |-> AnyInt(1)]}),
     MakeMap({[key |-> "profile", val |-> AnyString(<<"p">>)]})}
ProviderConfigs ==
    [Source : Sources, Version : Versions, ProviderMeta : ProviderMetas]
ResourceIDs == {<<>>, <<"i">>}
AttributeMaps == {NilMap, MakeMap({[key |-> "k", val |-> AnyInt(1)]})}
DependsOnLists ==
    {[isNil |-> TRUE, elems |-> <<>>], [isNil |-> FALSE, elems |-> << <<"d">> >>]}
MetaStrings == StrOver({"a", ":"}, MaxMetaLen)
TypeMetas == [APIVersion : MetaStrings, Kind : MetaStrings]
ObjectMetas == [Namespace : MetaStrings, Name : MetaStrings]

NoArgs == [none |-> TRUE]
NoRet == [none |-> TRUE]

(***************************************************************************)
(* The caller.                                                             *)
(***************************************************************************)
Init == fn = "none" /\ args = NoArgs /\ ret = NoRet

CallKubernetesResourceID ==
    /\ fn = "none"
    /\ \E typeMeta \in TypeMetas, objectMeta \in ObjectMetas :
          /\ args' = [typeMeta |-> typeMeta, objectMeta |-> objectMeta]
          /\ ret' = [id |-> KubernetesResourceID(typeMeta, objectMeta)]
    /\ fn' = "KubernetesResourceID"

CallTerraformResourceID ==
    /\ fn = "none"
    /\ \E providerCfg \in ProviderConfigs, resType \in ResTypes,
          resName \in ResNames :
          /\ args' = [providerCfg |-> providerCfg, resType |-> resType,
                      resName |-> resName]
          /\ ret' = TerraformResourceID(providerCfg, resType, resName)
    /\ fn' = "TerraformResourceID"

CallTerraformProviderExtensions ==
    /\ fn = "none"
    /\ \E providerCfg \in ProviderConfigs, resType \in ResTypes :
          /\ args' = [providerCfg |-> providerCfg, resType |-> resType]
          /\ ret' = TerraformProviderExtensions(providerCfg, resType)
    /\ fn' = "TerraformProviderExtensions"

CallWrapTFResourceToKusionResource ==
    /\ fn = "none"
    /\ \E providerCfg \in ProviderConfigs, resType \in ResTypes,
          resourceID \in ResourceIDs, attributes \in AttributeMaps,
          dependsOn \in DependsOnLists :
          /\ args' = [providerCfg |-> providerCfg, resType |-> resType,
                      resourceID |-> resourceID, attributes |-> attributes,
                      dependsOn |-> dependsOn]
          /\ ret' = WrapTFResourceToKusionResource(providerCfg, resType,
                        resourceID, attributes, dependsOn)
    /\ fn' = "WrapTFResourceToKusionResource"

CallTerraformProviderRegion ==
    /\ fn = "none"
    /\ \E providerCfg \in ProviderConfigs :
          /\ args' = [providerCfg |-> providerCfg]
          /\ ret' = TerraformProviderRegion(providerCfg)
    /\ fn' = "TerraformProviderRegion"

\* the caller has read the result and is ready for the next call
Return ==
    /\ fn # "none"
    /\ fn' = "none"
    /\ args' = NoArgs
    /\ ret' = NoRet

Next ==
    \/ CallKubernetesResourceID
    \/ CallTerraformResourceID
    \/ CallTerraformProviderExtensions
    \/ CallWrapTFResourceToKusionResource
    \/ CallTerraformProviderRegion
    \/ Return

Spec == Init /\ [][Next]_vars

(***************************************************************************)
(* Vocabulary of the properties, computed from the characters of the       *)
(* arguments and not through Split or Join.                                *)
(***************************************************************************)
CountChar(s, c) == Cardinality({i \in 1..Len(s) : s[i] = c})
SegmentCount(s) == CountChar(s, "/") + 1
\* position of the k-th "/" of s
SlashAt(s, k) ==
    CHOOSE i \in 1..Len(s) :
        s[i] = "/" /\ Cardinality({j \in 1..i : s[j] = "/"}) = k
\* namespace and name of a source of two or three segments
NamespaceOf(s) ==
    IF SegmentCount(s) = 2
    THEN SubSeq(s, 1, SlashAt(s, 1) - 1)
    ELSE SubSeq(s, SlashAt(s, 1) + 1, SlashAt(s, 2) - 1)
NameOf(s) ==
    IF SegmentCount(s) = 2
    THEN SubSeq(s, SlashAt(s, 1) + 1, Len(s))
    ELSE SubSeq(s, SlashAt(s, 2) + 1, Len(s))
\* two or three segments, none of them empty
WellFormedSource(s) ==
    /\ SegmentCount(s) \in {2, 3}
    /\ s[1] # "/"
    /\ s[Len(s)] # "/"
    /\ \A i \in 1..(Len(s) - 1) : ~(s[i] = "/" /\ s[i + 1] = "/")
RegistryTerraformIo ==
    <<"r", "e", "g", "i", "s", "t", "r", "y", ".",
      "t", "e", "r", "r", "a", "f", "o", "r", "m", ".", "i", "o">>
InTFExtensions == fn = "TerraformProviderExtensions"
InTFResourceID == fn = "TerraformResourceID"
InK8sResourceID == fn = "KubernetesResourceID"
InWrapTF == fn = "WrapTFResourceToKusionResource"
InTFRegion == fn = "TerraformProviderRegion"
\* the value bound to key k in the map m by exactly one entry
BoundTo(m, k, v) ==
    /\ ~m.isNil
    /\ [key |-> k, val |-> v] \in m.kv
    /\ Cardinality({e \in m.kv : e.key = k}) = 1

(***************************************************************************)
(* C1: TerraformProviderExtensions with a non-empty version and a          *)
(* non-empty resource type binds "provider" to                             *)
(* "registry.terraform.io/" + S + "/" + V when the source S has exactly    *)
(* two segments, and to S + "/" + V, without the default host, when S has  *)
(* exactly three.                                                          *)
(***************************************************************************)
C1_HostResolution ==
    (InTFExtensions /\ args.providerCfg.Version # <<>> /\ args.resType # <<>>)
    => LET S == args.providerCfg.Source
           V == args.providerCfg.Version
       IN  /\ SegmentCount(S) = 2
              => /\ ret.err = NoError
                 /\ BoundTo(ret.extensions, "provider",
                        AnyString(RegistryTerraformIo \o <<"/">> \o S
                                  \o <<"/">> \o V))
           /\ SegmentCount(S) = 3
              => /\ ret.err = NoError
                 /\ BoundTo(ret.extensions, "provider",
                        AnyString(S \o <<"/">> \o V))

C1_Witness ==
    /\ InTFExtensions
    /\ args.providerCfg.Version = <<"1">>
    /\ args.resType = <<"t">>
    /\ args.providerCfg.Source = <<"a", "/", "a", "/", "a">>
    /\ BoundTo(ret.extensions, "provider",
           AnyString(<<"a", "/", "a", "/", "a", "/", "1">>))

(***************************************************************************)
(* C2: the error returned is that of the first failing precondition.       *)
(* TerraformProviderExtensions: empty version, then empty source, then     *)
(* empty resource type, then a source of neither 2 nor 3 segments.         *)
(* TerraformResourceID: empty version, then a source of neither 2 nor 3    *)
(* segments.                                                               *)
(***************************************************************************)
C2_FirstFailingPrecondition ==
    /\ InTFExtensions
       => LET S == args.providerCfg.Source
              V == args.providerCfg.Version
              T == args.resType
          IN  /\ V = <<>> => ret.err = ErrEmptyTFProviderVersion
              /\ (V # <<>> /\ S = <<>>) => ret.err = ErrEmptySource
              /\ (V # <<>> /\ S # <<>> /\ T = <<>>)
                 => ret.err = ErrEmptyResourceType
              /\ (V # <<>> /\ S # <<>> /\ T # <<>>
                  /\ SegmentCount(S) \notin {2, 3})
                 => ret.err = ErrInvalidSource(S)
    /\ InTFResourceID
       => LET S == args.providerCfg.Source
              V == args.providerCfg.Version
          IN  /\ V = <<>> => ret.err = ErrEmptyTFProviderVersion
              /\ (V # <<>> /\ SegmentCount(S) \notin {2, 3})
                 => ret.err = ErrInvalidSource(S)

C2_Witness ==
    /\ InTFResourceID
    /\ args.providerCfg.Version = <<>>
    /\ SegmentCount(args.providerCfg.Source) = 4
    /\ ret.err = ErrEmptyTFProviderVersion

(***************************************************************************)
(* C3: with a non-empty version, resource type and source, both            *)
(* TerraformResourceID and TerraformProviderExtensions fail with           *)
(* InvalidProviderSource whenever the source does not split into 2 or 3    *)
(* non-empty segments.                                                     *)
(***************************************************************************)
C3_RejectsIllFormedSource ==
    ((InTFResourceID \/ InTFExtensions)
       /\ args.providerCfg.Version # <<>>
       /\ args.resType # <<>>
       /\ args.providerCfg.Source # <<>>
       /\ ~WellFormedSource(args.providerCfg.Source))
    => ret.err = ErrInvalidSource(args.providerCfg.Source)

(***************************************************************************)
(* C4: on success TerraformResourceID returns                              *)
(* namespace ":" name ":" resType ":" resName, with namespace and name the *)
(* last two segments of the source; the host segment and the version do    *)
(* not matter: "<ns>/<name>" and "<host>/<ns>/<name>" with any non-empty   *)
(* versions give the same id.                                              *)
(***************************************************************************)
C4_IdFromNamespaceAndName ==
    (InTFResourceID /\ ret.err = NoError)
    => LET S == args.providerCfg.Source
       IN  /\ SegmentCount(S) \in {2, 3}
           /\ ret.id = NamespaceOf(S) \o <<":">> \o NameOf(S) \o <<":">>
                         \o args.resType \o <<":">> \o args.resName
           /\ SegmentCount(S) = 2
              => \A host \in StrOver({"a", ":"}, 1),
                    version \in Versions \ {<<>>} :
                    TerraformResourceID(
                        [Source |-> host \o <<"/">> \o S,
                         Version |-> version,
                         ProviderMeta |-> args.providerCfg.ProviderMeta],
                        args.resType, args.resName) = ret

C4_Witness ==
    /\ InTFResourceID
    /\ args.providerCfg.Source = <<"a", "/", ":", "/", "a">>
    /\ args.providerCfg.Version = <<"1">>
    /\ args.resType = <<"t">>
    /\ args.resName = <<"n">>
    /\ ret.id = <<":", ":", "a", ":", "t", ":", "n">>

(***************************************************************************)
(* C5: TerraformResourceID either returns an id of exactly four            *)
(* colon-separated segments, or fails with InvalidProviderSource or        *)
(* EmptyProviderVersion and returns the empty id.                          *)
(***************************************************************************)
C5_FourSegmentsOrError ==
    InTFResourceID
    => \/ ret.err = NoError /\ CountChar(ret.id, ":") = 3
       \/ /\ ret.err \in {ErrEmptyTFProviderVersion,
                          ErrInvalidSource(args.providerCfg.Source)}
          /\ ret.id = <<>>

(***************************************************************************)
(* C6: KubernetesResourceID returns exactly three                          *)
(* colon-separated segments (apiVersion, kind, name) when the namespace is *)
(* empty and exactly four (apiVersion, kind, namespace, name) otherwise.   *)
(***************************************************************************)
C6_ThreeOrFourSegments ==
    InK8sResourceID
    => LET t == args.typeMeta
           o == args.objectMeta
       IN  /\ o.Namespace = <<>>
              => /\ CountChar(ret.id, ":") = 2
                 /\ ret.id = t.APIVersion \o <<":">> \o t.Kind \o <<":">>
                               \o o.Name
           /\ o.Namespace # <<>>
              => /\ CountChar(ret.id, ":") = 3
                 /\ ret.id = t.APIVersion \o <<":">> \o t.Kind \o <<":">>
                               \o o.Namespace \o <<":">> \o o.Name

(***************************************************************************)
(* C7: whenever TerraformProviderExtensions succeeds the map has exactly   *)
(* the keys provider, providerMeta and resourceType, providerMeta bound to *)
(* the config's ProviderMeta unchanged (also when it is empty or nil) and  *)
(* resourceType to the resource-type argument; whenever it fails no map is *)
(* returned.                                                               *)
(***************************************************************************)
C7_ExtensionsComplete ==
    InTFExtensions
    => IF ret.err = NoError
       THEN /\ ~ret.extensions.isNil
            /\ {e.key : e \in ret.extensions.kv}
                   = {"provider", "providerMeta", "resourceType"}
            /\ Cardinality(ret.extensions.kv) = 3
            /\ BoundTo(ret.extensions, "providerMeta",
                   AnyConfig(args.providerCfg.ProviderMeta))
            /\ BoundTo(ret.extensions, "resourceType",
                   AnyString(args.resType))
       ELSE ret.extensions = NilMap

C7_Witness ==
    /\ InTFExtensions
    /\ ret.err = NoError
    /\ args.providerCfg.ProviderMeta = NilMap
    /\ BoundTo(ret.extensions, "providerMeta", AnyConfig(NilMap))

(***************************************************************************)
(* C8: WrapTFResourceToKusionResource succeeds exactly when                *)
(* TerraformProviderExtensions succeeds on the same config and resource    *)
(* type.  On success the record has type Terraform, the supplied id,       *)
(* attributes and dependsOn unchanged and the extensions of                *)
(* TerraformProviderExtensions; on failure it returns the same error and   *)
(* no record.                                                              *)
(***************************************************************************)
C8_WrapFollowsExtensions ==
    InWrapTF
    => LET e == TerraformProviderExtensions(args.providerCfg, args.resType)
       IN  /\ (ret.err = NoError) <=> (e.err = NoError)
           /\ ret.err = e.err
           /\ e.err = NoError
              => /\ ~ret.resource.isNil
                 /\ ret.resource.Type = "Terraform"
                 /\ ret.resource.ID = args.resourceID
                 /\ ret.resource.Attributes = args.attributes
                 /\ ret.resource.DependsOn = args.dependsOn
                 /\ ret.resource.Extensions = e.extensions
           /\ e.err # NoError => ret.resource = NilResource

C8_Witness ==
    /\ InWrapTF
    /\ ret.err = NoError
    /\ args.resourceID = <<>>
    /\ ~args.dependsOn.isNil
    /\ ret.resource.DependsOn.elems = << <<"d">> >>
    /\ ret.resource.Type = "Terraform"

(***************************************************************************)
(* C9: TerraformProviderRegion returns the empty string when providerMeta  *)
(* has no "region" key (a nil providerMeta included) and the stored value  *)
(* when "region" is bound to a string, whatever the source and the         *)
(* version.                                                                *)
(***************************************************************************)
C9_RegionLookup ==
    InTFRegion
    => LET regions == {e \in args.providerCfg.ProviderMeta.kv :
                           e.key = "region"}
       IN  /\ regions = {} => ret = [region |-> <<>>, panicked |-> FALSE]
           /\ \A e \in regions :
                  e.val.type = "string"
                  => ret = [region |-> e.val.str, panicked |-> FALSE]

C9_Witness ==
    /\ InTFRegion
    /\ args.providerCfg.Version = <<>>
    /\ args.providerCfg.Source = <<>>
    /\ ret = [region |-> <<"r">>, panicked |-> FALSE]

(***************************************************************************)
(* C10: KubernetesResourceID is injective: two Kubernetes objects that     *)
(* differ in apiVersion, kind, namespace or name never get the same id.    *)
(***************************************************************************)
C10_K8sIdInjective ==
    InK8sResourceID
    => \A typeMeta \in TypeMetas, objectMeta \in ObjectMetas :
           (typeMeta # args.typeMeta \/ objectMeta # args.objectMeta)
           => KubernetesResourceID(typeMeta, objectMeta) # ret.id
====
